---- MODULE Spec2Model ----
(***************************************************************************)
(* Model of src/fetch_liquidations.py: the leverage classifier, the        *)
(* leaderboard discovery with its fallback, the per-account position       *)
(* collector, the orchestrating loop of main and the bucketing engine      *)
(* aggregate_liquidations.                                                 *)
(*                                                                         *)
(* Number representations                                                  *)
(*   leverage          an integer count of 1/LevScale units                *)
(*   prices            integers, thousandths of a dollar (exact)           *)
(*   output price      integer cents (the value of round(price, 2))        *)
(*   notional values   IEEE-754 doubles, written <<hi, lo>> for the        *)
(*                     number (hi * 2^28 + lo) * 2^-46; sums are rounded   *)
(*                     to 53 significant bits, ties to even, as Python's   *)
(*                     float addition rounds them                          *)
(* The bucket arithmetic on prices is done in exact rationals; the         *)
(* liquidation prices the inputs use lie inside their buckets and the      *)
(* bucket midpoints they reach are no rounding ties, where the double      *)
(* computation of the source gives the same index and the same cents.      *)
(***************************************************************************)
EXTENDS Integers, Sequences, FiniteSets, TLC

VARIABLES
    pc,              \* which function is running and where it stands
    leverage,        \* get_leverage_bucket: the argument
    label,           \* get_leverage_bucket: the returned label
    primary,         \* fetch_leaderboard: outcome of the GET request
    secondary,       \* fetch_leaderboard: outcome of the POST request
    posts,           \* fetch_leaderboard: number of POST requests issued
    wallets,         \* the discovered accounts (fetch_leaderboard's result)
    payload,         \* fetch_clearinghouse_state: outcome of the request
    positions,       \* fetch_clearinghouse_state: the returned list
    i,               \* main: loop index over wallets
    calls,           \* main: the calls made, <<wallet, outcome>> in order
    all_positions,   \* main / aggregate_liquidations: the flat position list
    current_prices,  \* the price snapshot (symbol -> thousandths of a dollar)
    result           \* aggregate_liquidations: the returned mapping

vars == <<pc, leverage, label, primary, secondary, posts, wallets, payload,
          positions, i, calls, all_positions, current_prices, result>>

---------------------------------------------------------------------------
(* Bounds of the model *)

\* leverage is counted in units of 1/LevScale
LevScale == 2
\* largest leverage the classifier is tried on
MaxLeverage == 102
\* longest leaderboard response
MaxRows == 2
\* longest assetPositions list of one account
MaxEntries == 2
\* longest list of discovered accounts in main
MaxWallets == 3
\* longest position list handed to aggregate_liquidations
MaxPos == 3

---------------------------------------------------------------------------
(* Sequences *)

RECURSIVE SeqsUpTo(_, _)
SeqsUpTo(S, n) ==
    IF n = 0 THEN {<<>>}
    ELSE LET shorter == SeqsUpTo(S, n - 1)
         IN  shorter \cup {Append(s, x) : s \in {t \in shorter : Len(t) = n - 1}, x \in S}

Min(a, b) == IF a <= b THEN a ELSE b

---------------------------------------------------------------------------
(* Python floats: the notional values and their sums *)

\* a double is <<hi, lo>>, the number (hi * Base + lo) * 2^-46 dollars
Base == 2 ^ 28
\* hi below 2^MantHi: at most 53 significant bits, so the number is a double
MantHi == 2 ^ 25

FZero == <<0, 0>>

\* round a sum to 53 significant bits, ties to even
RoundToDouble(n) ==
    IF n[1] < MantHi THEN n
    ELSE LET s    == CHOOSE k \in 1..6 : n[1] \div (2 ^ (24 + k)) = 1
             m    == 2 ^ s
             r    == n[2] % m
             odd  == (n[2] \div m) % 2 = 1
             up   == (2 * r > m) \/ (2 * r = m /\ odd)
             lo   == n[2] - r + (IF up THEN m ELSE 0)
         IN  IF lo = Base THEN <<n[1] + 1, 0>> ELSE <<n[1], lo>>

\* a + b of two non-negative doubles
FAdd(a, b) ==
    LET lo == a[2] + b[2]
    IN  RoundToDouble(<<a[1] + b[1] + (lo \div Base), lo % Base>>)

---------------------------------------------------------------------------
(* Configuration *)

TOP_COINS == <<"BTC", "ETH", "SOL", "HYPE", "XRP", "DOGE", "SUI", "LINK", "AVAX", "PEPE">>

TrackedCoins == {TOP_COINS[k] : k \in 1..Len(TOP_COINS)}

LEVERAGE_BUCKETS ==
    << [min |-> 1,  max |-> 10,  label |-> "10x"],
       [min |-> 11, max |-> 25,  label |-> "25x"],
       [min |-> 26, max |-> 50,  label |-> "50x"],
       [min |-> 51, max |-> 100, label |-> "100x"] >>

Labels == {LEVERAGE_BUCKETS[k].label : k \in 1..Len(LEVERAGE_BUCKETS)}

---------------------------------------------------------------------------
(* JSON values as the code meets them: a field is absent, null, a number   *)
(* (n) or a string that is no number                                       *)

Absent == [t |-> "absent", n |-> 0]
Null   == [t |-> "null",   n |-> 0]
NotNum == [t |-> "str",    n |-> 0]
Num(n) == [t |-> "num",    n |-> n]

---------------------------------------------------------------------------
(* get_leverage_bucket *)

\* get_leverage_bucket with the upper end of each range left out
get_leverage_bucket_open(lev) ==
    IF lev.t # "num" THEN "TypeError"
    ELSE LET hits == {k \in 1..Len(LEVERAGE_BUCKETS) :
                        /\ LEVERAGE_BUCKETS[k].min * LevScale <= lev.n
                        /\ lev.n < LEVERAGE_BUCKETS[k].max * LevScale}
         IN  IF hits # {}
             THEN LEVERAGE_BUCKETS[CHOOSE k \in hits : \A j \in hits : k <= j].label
             ELSE "100x"

\* the first range holding the leverage, '100x' when none does; comparing
\* None or a string with a number raises TypeError
get_leverage_bucket(lev) ==
    IF lev.t # "num" THEN "TypeError"
    ELSE LET hits == {k \in 1..Len(LEVERAGE_BUCKETS) :
                        /\ LEVERAGE_BUCKETS[k].min * LevScale <= lev.n
                        /\ lev.n <= LEVERAGE_BUCKETS[k].max * LevScale}
         IN  IF hits # {}
             THEN LEVERAGE_BUCKETS[CHOOSE k \in hits : \A j \in hits : k <= j].label
             ELSE "100x"

---------------------------------------------------------------------------
(* fetch_clearinghouse_state *)

\* float(entry_price) for the entry prices of the model
DoubleOf(milli) ==
    CASE milli = 100100  -> <<26240614, 107374182>>    \* 100.1
      [] milli = 1000000 -> <<262144000, 0>>           \* 1000.0

\* abs(size_float) * float(entry_price), for sizes 0 and 1
PositionValue(size, entryPx) ==
    IF size = 0 THEN FZero ELSE DoubleOf(entryPx)

Abs(x) == IF x < 0 THEN -x ELSE x

\* leverage_info.get('value', 1) if isinstance(leverage_info, dict) else 1
\* a missing 'leverage' key gives the default {}, a dict
LeverageOf(leverage_info) ==
    CASE leverage_info.t = "absent" -> Num(1 * LevScale)
      [] leverage_info.t = "dict" ->
            IF leverage_info.value.t = "absent" THEN Num(1 * LevScale)
            ELSE leverage_info.value
      [] OTHER -> Num(1 * LevScale)

\* the entry is passed over: untracked coin, or a price missing
EntrySkipped(pos) ==
    \/ pos.coin \notin TrackedCoins
    \/ ~(pos.liquidationPx.t = "num" /\ pos.entryPx.t = "num")

\* building the Position raises: get_leverage_bucket on a non-number
EntryRaises(pos) ==
    /\ ~EntrySkipped(pos)
    /\ get_leverage_bucket(LeverageOf(pos.leverage)) = "TypeError"

MakePosition(pos) ==
    [ coin           |-> pos.coin,
      liquidationPx  |-> pos.liquidationPx.n,
      entryPx        |-> pos.entryPx.n,
      size           |-> Abs(pos.szi),
      positionValue  |-> PositionValue(Abs(pos.szi), pos.entryPx.n),
      leverage       |-> LeverageOf(pos.leverage).n,
      leverageBucket |-> get_leverage_bucket(LeverageOf(pos.leverage)),
      side           |-> IF pos.szi > 0 THEN "long" ELSE "short" ]

\* the loop over asset_positions from entry k on; an exception leaves it
RECURSIVE ParseEntries(_, _, _)
ParseEntries(asset_positions, k, acc) ==
    IF k > Len(asset_positions) THEN [raised |-> FALSE, positions |-> acc]
    ELSE LET pos == asset_positions[k]
         IN  IF EntrySkipped(pos) THEN ParseEntries(asset_positions, k + 1, acc)
             ELSE IF EntryRaises(pos) THEN [raised |-> TRUE, positions |-> acc]
             ELSE ParseEntries(asset_positions, k + 1, Append(acc, MakePosition(pos)))

\* the request failed (transport, status, JSON) or the parsing raised
FetchFails(outcome) ==
    \/ outcome.kind # "ok"
    \/ ParseEntries(outcome.assetPositions, 1, <<>>).raised

fetch_clearinghouse_state(outcome) ==
    IF outcome.kind # "ok" THEN <<>>
    ELSE LET parsed == ParseEntries(outcome.assetPositions, 1, <<>>)
         IN  IF parsed.raised THEN <<>> ELSE parsed.positions

---------------------------------------------------------------------------
(* aggregate_liquidations *)

\* the window is [price * WindowLo / 10, price * WindowHi / 10]
WindowLo == 7
WindowHi == 13
num_buckets == 50
\* round(price, 2): hundredths
PriceDecimals == 2

\* current_prices.get(coin, 0)
PriceOf(prices, coin) == IF coin \in DOMAIN prices THEN prices[coin] ELSE 0

\* [p for p in all_positions if p['coin'] == coin]
CoinPositions(all, coin) == SelectSeq(all, LAMBDA p : p.coin = coin)

\* InWindow without the lower bound
InWindow_no_lower(price, liq) == 10 * liq <= WindowHi * price

\* price_min <= liq_price <= price_max
InWindow(price, liq) ==
    /\ WindowLo * price <= 10 * liq
    /\ 10 * liq <= WindowHi * price

\* min(int((liq_price - price_min) / bucket_size), num_buckets - 1)
\* with bucket_size = (price_max - price_min) / num_buckets
BucketIdx(price, liq) ==
    Min(((10 * liq - WindowLo * price) * num_buckets) \div ((WindowHi - WindowLo) * price),
        num_buckets - 1)

\* n / d rounded to the nearest integer, halves to even
RoundHalfEven(n, d) ==
    LET q == n \div d
        r == n % d
    IN  IF 2 * r > d \/ (2 * r = d /\ q % 2 = 1) THEN q + 1 ELSE q

\* BucketCents of the bucket's upper edge instead of its midpoint
BucketCents_upper_edge(price, bucket_idx) ==
    RoundHalfEven(
        price * (2 * WindowLo * num_buckets
                 + (WindowHi - WindowLo) * (2 * bucket_idx + 2)),
        20 * num_buckets * (10 ^ (3 - PriceDecimals)))

\* round(price_min + (bucket_idx + 0.5) * bucket_size, 2), in cents; the
\* midpoint is price * (2 * WindowLo * num_buckets + (WindowHi - WindowLo) *
\* (2 * bucket_idx + 1)) / (20 * num_buckets) thousandths of a dollar
BucketCents(price, bucket_idx) ==
    RoundHalfEven(
        price * (2 * WindowLo * num_buckets
                 + (WindowHi - WindowLo) * (2 * bucket_idx + 1)),
        20 * num_buckets * (10 ^ (3 - PriceDecimals)))

TierKeys == {"total", "10x", "25x", "50x", "100x"}

\* defaultdict's fresh cell
EmptyCell == [f \in TierKeys |-> FZero]

\* AddToCell with the tier sub-total assigned instead of added to
AddToCell_tier_assigned(cells, bucket, leverage_bucket, value) ==
    LET cur == IF bucket \in DOMAIN cells THEN cells[bucket] ELSE EmptyCell
        new == [f \in TierKeys |->
                  IF f = "total" THEN FAdd(cur[f], value)
                  ELSE IF f = leverage_bucket THEN value
                  ELSE cur[f]]
    IN  [b \in DOMAIN cells \cup {bucket} |-> IF b = bucket THEN new ELSE cells[b]]

\* cells[bucket]['total'] += value; cells[bucket][leverage_bucket] += value
AddToCell(cells, bucket, leverage_bucket, value) ==
    LET cur == IF bucket \in DOMAIN cells THEN cells[bucket] ELSE EmptyCell
        new == [f \in TierKeys |->
                  IF f = "total" \/ f = leverage_bucket THEN FAdd(cur[f], value)
                  ELSE cur[f]]
    IN  [b \in DOMAIN cells \cup {bucket} |-> IF b = bucket THEN new ELSE cells[b]]

NoCells == [b \in {} |-> EmptyCell]

\* the loop over coin_positions from position k on
RECURSIVE Accumulate(_, _, _, _)
Accumulate(coin_positions, k, price, st) ==
    IF k > Len(coin_positions) THEN st
    ELSE LET pos == coin_positions[k]
             idx == BucketIdx(price, pos.liquidationPx)
             nxt ==
                 IF ~InWindow(price, pos.liquidationPx) THEN st
                 ELSE IF pos.side = "long"
                 THEN [st EXCEPT
                         !.long = AddToCell(@, idx, pos.leverageBucket, pos.positionValue),
                         !.cumulative_long = FAdd(@, pos.positionValue)]
                 ELSE [st EXCEPT
                         !.short = AddToCell(@, idx, pos.leverageBucket, pos.positionValue),
                         !.cumulative_short = FAdd(@, pos.positionValue)]
         IN  Accumulate(coin_positions, k + 1, price, nxt)

\* sorted(keys)
RECURSIVE SortedAsc(_)
SortedAsc(S) ==
    IF S = {} THEN <<>>
    ELSE LET m == CHOOSE x \in S : \A y \in S : x <= y
         IN  <<m>> \o SortedAsc(S \ {m})

\* sorted(keys, reverse=True)
RECURSIVE SortedDesc(_)
SortedDesc(S) ==
    IF S = {} THEN <<>>
    ELSE LET m == CHOOSE x \in S : \A y \in S : x >= y
         IN  <<m>> \o SortedDesc(S \ {m})

\* one emitted bucket; `bucket` is the index behind the dictionary key the
\* record was built from (the unrounded midpoint), which the output drops
BucketRecord(price, bucket, cell, cum) ==
    [f \in {"price", "bucket", "value", "cumulative", "10x", "25x", "50x", "100x"} |->
        CASE f = "price"      -> BucketCents(price, bucket)
          [] f = "bucket"     -> bucket
          [] f = "value"      -> cell["total"]
          [] f = "cumulative" -> cum
          [] OTHER            -> cell[f]]

\* the loop that builds long_data / short_data over the sorted keys
RECURSIVE Cumulate(_, _, _, _, _, _)
Cumulate(keys, k, cells, price, cum, data) ==
    IF k > Len(keys) THEN data
    ELSE LET c == FAdd(cum, cells[keys[k]]["total"])
         IN  Cumulate(keys, k + 1, cells, price, c,
                      Append(data, BucketRecord(price, keys[k], cells[keys[k]], c)))

\* list.sort(key=lambda x: x['price']): stable, ascending
RECURSIVE SortByPrice(_)
SortByPrice(data) ==
    IF data = <<>> THEN <<>>
    ELSE LET n      == Len(data)
             x      == data[n]
             sorted == SortByPrice(SubSeq(data, 1, n - 1))
             at     == Cardinality({j \in 1..Len(sorted) : sorted[j]["price"] <= x["price"]})
         IN  SubSeq(sorted, 1, at) \o <<x>> \o SubSeq(sorted, at + 1, Len(sorted))

\* LongKeys without reverse=True
LongKeys_ascending(cells) == SortedAsc(DOMAIN cells)

\* the cumulative order of the long side
LongKeys(cells) == SortedDesc(DOMAIN cells)

\* the cumulative order of the short side
ShortKeys(cells) == SortedAsc(DOMAIN cells)

\* the profile of one coin with a price and at least one position
Profile(all, price, coin) ==
    LET coin_positions == CoinPositions(all, coin)
        st == Accumulate(coin_positions, 1, price,
                         [long |-> NoCells, short |-> NoCells,
                          cumulative_long |-> FZero, cumulative_short |-> FZero])
    IN  [ currentPrice      |-> price,
          longLiquidations  |->
              SortByPrice(Cumulate(LongKeys(st.long), 1, st.long, price, FZero, <<>>)),
          shortLiquidations |->
              SortByPrice(Cumulate(ShortKeys(st.short), 1, st.short, price, FZero, <<>>)),
          totalLongValue    |-> st.cumulative_long,
          totalShortValue   |-> st.cumulative_short,
          positionCount     |-> Len(coin_positions) ]

aggregate_liquidations(all, prices) ==
    [ coin \in {c \in TrackedCoins :
                  PriceOf(prices, c) # 0 /\ CoinPositions(all, c) # <<>>} |->
        Profile(all, PriceOf(prices, coin), coin) ]

---------------------------------------------------------------------------
(* fetch_leaderboard *)

\* data[:200]
LeaderboardCap == 200

Take(rows, n) == SubSeq(rows, 1, Min(Len(rows), n))

\* a or b on strings; "" stands for a key that is missing, null or empty
Or(a, b) == IF a # "" THEN a ELSE b

\* a response entry: an object with its address keys, a string, or a value
\* that is neither (a number, null)
DictEntry(eth, user, address) ==
    [t |-> "dict", ethAddress |-> eth, user |-> user, address |-> address, s |-> ""]
StrEntry(str) ==
    [t |-> "str", ethAddress |-> "", user |-> "", address |-> "", s |-> str]
OtherEntry ==
    [t |-> "other", ethAddress |-> "", user |-> "", address |-> "", s |-> ""]

\* a response: the request failed (kind), or JSON of a shape: an object with
\* 'leaderboardRows' ("rows"), a list ("list"), anything else ("other")
Response(kind, shape, rows) == [kind |-> kind, shape |-> shape, rows |-> rows]

\* the primary attempt leaves the try block by an exception: the request
\* failed, or entry.get is called on a row that is no object
PrimaryRaises(r) ==
    \/ r.kind # "ok"
    \/ /\ r.shape = "rows"
       /\ \E k \in 1..Len(Take(r.rows, LeaderboardCap)) : r.rows[k].t # "dict"

RECURSIVE PrimaryWallets(_)
\* the wallets the primary attempt collects from a response that does not raise
PrimaryWallets(r) ==
    LET rows == Take(r.rows, LeaderboardCap)
        n    == Len(rows)
        rest == PrimaryWallets([r EXCEPT !.rows = SubSeq(rows, 1, n - 1)])
        e    == rows[n]
        w    == IF r.shape = "rows" THEN Or(e.ethAddress, e.user)
                ELSE Or(Or(e.ethAddress, e.user), e.address)
    IN  IF r.shape = "other" \/ n = 0 THEN <<>>
        ELSE IF e.t = "dict" THEN (IF w # "" THEN Append(rest, w) ELSE rest)
        ELSE IF e.t = "str" THEN Append(rest, e.s)
        ELSE rest

RECURSIVE SecondaryWallets(_)
\* the wallets the fallback attempt collects: objects of a list only
SecondaryWallets(r) ==
    LET rows == Take(r.rows, LeaderboardCap)
        n    == Len(rows)
        rest == SecondaryWallets([r EXCEPT !.rows = SubSeq(rows, 1, n - 1)])
        e    == rows[n]
        w    == Or(e.ethAddress, e.user)
    IN  IF r.kind # "ok" \/ r.shape # "list" \/ n = 0 THEN <<>>
        ELSE IF e.t = "dict" /\ w # "" THEN Append(rest, w)
        ELSE rest

---------------------------------------------------------------------------
(* Values of the variables of the functions a specification does not run *)

NoResponse == [kind |-> "none"]

NoPrices == [c \in {} |-> 0]

ClassifierIdle == leverage = Num(0) /\ label = "none"

LeaderboardIdle == primary = NoResponse /\ secondary = NoResponse /\ posts = 0

CollectorIdle == payload = NoResponse /\ positions = <<>>

LoopIdle == i = 0 /\ calls = <<>>

AggregatorIdle == all_positions = <<>> /\ current_prices = NoPrices /\ result = NoPrices

---------------------------------------------------------------------------
(* SpecClassify: get_leverage_bucket on every leverage from -1 to          *)
(* MaxLeverage, in steps of 1/LevScale                                     *)

LeverageValues == {Num(n) : n \in (-LevScale)..(MaxLeverage * LevScale)}

InitClassify ==
    /\ pc = "classify"
    /\ leverage \in LeverageValues
    /\ label = "none"
    /\ wallets = <<>>
    /\ LeaderboardIdle /\ CollectorIdle /\ LoopIdle /\ AggregatorIdle

Classify ==
    /\ pc = "classify"
    /\ label' = get_leverage_bucket(leverage)
    /\ pc' = "classified"
    /\ UNCHANGED <<leverage, primary, secondary, posts, wallets, payload, positions,
                   i, calls, all_positions, current_prices, result>>

NextClassify == Classify

SpecClassify == InitClassify /\ [][NextClassify]_vars

---------------------------------------------------------------------------
(* SpecCollect: fetch_clearinghouse_state on one account's response *)

\* the leverage descriptor of a raw position
LevAbsent   == [t |-> "absent", n |-> 0, value |-> Absent]
LevNull     == [t |-> "null",   n |-> 0, value |-> Absent]
LevBare(n)  == [t |-> "num",    n |-> n, value |-> Absent]
LevDict(v)  == [t |-> "dict",   n |-> 0, value |-> v]

RequestErrors ==
    { [kind |-> "transport_error", assetPositions |-> <<>>],
      [kind |-> "bad_status",      assetPositions |-> <<>>],
      [kind |-> "bad_json",        assetPositions |-> <<>>] }

Ok(asset_positions) == [kind |-> "ok", assetPositions |-> asset_positions]

CollectDescriptors ==
    { LevAbsent, LevNull, LevBare(20 * LevScale), LevDict(Absent),
      LevDict(Num(20 * LevScale)), LevDict(Null), LevDict(NotNum) }

CollectPrices ==
    { <<Num(85000), Num(1000000)>>, <<Absent, Num(1000000)>>, <<Num(85000), Null>> }

CollectEntries ==
    { [coin |-> c, liquidationPx |-> px[1], entryPx |-> px[2], szi |-> 1, leverage |-> d] :
        c \in {"BTC", "ZZZ"}, px \in CollectPrices, d \in CollectDescriptors }

CollectOutcomes ==
    RequestErrors \cup {Ok(s) : s \in SeqsUpTo(CollectEntries, MaxEntries)}

InitCollect ==
    /\ pc = "fetch"
    /\ payload \in CollectOutcomes
    /\ positions = <<>>
    /\ wallets = <<>>
    /\ ClassifierIdle /\ LeaderboardIdle /\ LoopIdle /\ AggregatorIdle

Fetch ==
    /\ pc = "fetch"
    /\ positions' = fetch_clearinghouse_state(payload)
    /\ pc' = "fetched"
    /\ UNCHANGED <<leverage, label, primary, secondary, posts, wallets, payload,
                   i, calls, all_positions, current_prices, result>>

NextCollect == Fetch

SpecCollect == InitCollect /\ [][NextCollect]_vars

---------------------------------------------------------------------------
(* Claims on get_leverage_bucket (SpecClassify) *)

InRange(k, n) ==
    /\ LEVERAGE_BUCKETS[k].min * LevScale <= n
    /\ n <= LEVERAGE_BUCKETS[k].max * LevScale

Lowest  == LEVERAGE_BUCKETS[1]
Highest == LEVERAGE_BUCKETS[Len(LEVERAGE_BUCKETS)]

\* C8, as stated: every leverage gets one of the four labels; a leverage inside
\* a range gets the range's label, one above the highest max gets '100x', and
\* one below the lowest min gets the nearest tier, the lowest one
C8_BelowMinClampedToNearest ==
    pc = "classified" =>
        /\ label \in Labels
        /\ \A k \in 1..Len(LEVERAGE_BUCKETS) :
              InRange(k, leverage.n) => label = LEVERAGE_BUCKETS[k].label
        /\ leverage.n > Highest.max * LevScale => label = Highest.label
        /\ leverage.n < Lowest.min * LevScale => label = Lowest.label

\* C8, amended: every leverage gets one of the four labels; a leverage inside
\* a range gets the range's label, and a leverage no range holds (above 100,
\* below 1, or between two ranges) gets the highest tier's label '100x'
C8_UnmatchedGetsHighest ==
    pc = "classified" =>
        /\ label \in Labels
        /\ \A k \in 1..Len(LEVERAGE_BUCKETS) :
              InRange(k, leverage.n) => label = LEVERAGE_BUCKETS[k].label
        /\ (\A k \in 1..Len(LEVERAGE_BUCKETS) : ~InRange(k, leverage.n))
              => label = Highest.label

\* a leverage below 1 has been classified, as '100x'
C8_Witness ==
    /\ pc = "classified"
    /\ leverage.n < Lowest.min * LevScale
    /\ label = "100x"

---------------------------------------------------------------------------
(* Claims on fetch_clearinghouse_state (SpecCollect) *)

\* the leverage descriptor carries a `value` that is null or no number
MalformedLeverage(d) == d.t = "dict" /\ d.value.t \in {"null", "str"}

\* a tracked entry with both prices and a leverage descriptor that is not malformed
WellFormed(pos) == ~EntrySkipped(pos) /\ ~MalformedLeverage(pos.leverage)

RECURSIVE MapPositions(_)
MapPositions(entries) ==
    IF entries = <<>> THEN <<>>
    ELSE <<MakePosition(Head(entries))>> \o MapPositions(Tail(entries))

\* C3: an anomalous entry is the only one skipped: every well-formed tracked
\* entry of the payload, before or after it, is returned as a Position
C3_AnomalySkipsOnlyThatEntry ==
    (pc = "fetched" /\ payload.kind = "ok") =>
        positions = MapPositions(SelectSeq(payload.assetPositions, WellFormed))

\* the leverage the interface's descriptor states: the bare number, the `value`
\* of an object, 1 when neither is there
StatedLeverage(d) ==
    CASE d.t = "num" -> d.n
      [] d.t = "dict" /\ d.value.t = "num" -> d.value.n
      [] OTHER -> 1 * LevScale

Accepted(pos) == ~EntrySkipped(pos)

\* C10: each accepted entry's Position carries the descriptor's own number
\* (bare number), its `value` (object), 1 only when absent, and the tier of
\* that leverage
C10_LeverageFromDescriptor ==
    (pc = "fetched" /\ payload.kind = "ok" /\ ~FetchFails(payload)) =>
        LET accepted == SelectSeq(payload.assetPositions, Accepted)
        IN  /\ Len(positions) = Len(accepted)
            /\ \A k \in 1..Len(accepted) :
                  /\ positions[k].leverage = StatedLeverage(accepted[k].leverage)
                  /\ positions[k].leverageBucket =
                        get_leverage_bucket(Num(StatedLeverage(accepted[k].leverage)))

---------------------------------------------------------------------------
(* SpecAggregate: aggregate_liquidations on position lists that           *)
(* fetch_clearinghouse_state can return                                    *)

Lev(n) == LevDict(Num(n * LevScale))

Raw(coin, liq, entry, szi, lev) ==
    [coin |-> coin, liquidationPx |-> Num(liq), entryPx |-> Num(entry),
     szi |-> szi, leverage |-> lev]

\* long BTC positions in two buckets, of notional 100.1 or 1000.0, in two tiers
SumInputs ==
    { MakePosition(Raw("BTC", liq, entry, 1, lev)) :
        liq \in {85000, 95000}, entry \in {100100, 1000000}, lev \in {Lev(5), Lev(20)} }

\* BTC positions of notional 1000.0 below, on, inside and above the window
WindowInputs ==
    { MakePosition(Raw("BTC", liq, 1000000, szi, Lev(5))) :
        liq \in {60000, 70000, 85000, 130000, 140000}, szi \in {1, -1} }

\* XRP positions in three neighbouring buckets, two of which round to the same
\* cents, and a position of a coin whose price is zero
TieInputs ==
    { MakePosition(Raw("XRP", liq, 1000000, szi, Lev(5))) :
        liq \in {377, 383, 389}, szi \in {1, -1} }
    \cup { MakePosition(Raw("ETH", 3000000, 1000000, 1, Lev(5))) }

AggregateInputs ==
    SeqsUpTo(SumInputs, MaxPos) \cup SeqsUpTo(WindowInputs, MaxPos)
        \cup SeqsUpTo(TieInputs, MaxPos)

AggregatePrices == [c \in {"BTC", "XRP", "ETH"} |->
                      CASE c = "BTC" -> 100000 [] c = "XRP" -> 500 [] OTHER -> 0]

InitAggregate ==
    /\ pc = "aggregate"
    /\ all_positions \in AggregateInputs
    /\ current_prices = AggregatePrices
    /\ result = NoPrices
    /\ wallets = <<>>
    /\ ClassifierIdle /\ LeaderboardIdle /\ CollectorIdle /\ LoopIdle

Aggregate ==
    /\ pc = "aggregate"
    /\ result' = aggregate_liquidations(all_positions, current_prices)
    /\ pc' = "aggregated"
    /\ UNCHANGED <<leverage, label, primary, secondary, posts, wallets, payload,
                   positions, i, calls, all_positions, current_prices>>

NextAggregate == Aggregate

SpecAggregate == InitAggregate /\ [][NextAggregate]_vars

---------------------------------------------------------------------------
(* Claims on aggregate_liquidations (SpecAggregate) *)

Elements(L) == {L[k] : k \in 1..Len(L)}

\* b['10x'] + b['25x'] + b['50x'] + b['100x'] in floats
TierSum(b) == FAdd(FAdd(FAdd(b["10x"], b["25x"]), b["50x"]), b["100x"])

\* a <= b on doubles
FLe(a, b) == a[1] < b[1] \/ (a[1] = b[1] /\ a[2] <= b[2])

\* the unit in the last place of a double of at least 64.0
Ulp(x) ==
    IF x[1] < MantHi THEN 1
    ELSE 2 ^ (CHOOSE k \in 1..6 : x[1] \div (2 ^ (24 + k)) = 1)

\* x plus d units of 2^-46, exactly
PlusUnits(x, d) == <<x[1] + ((x[2] + d) \div Base), (x[2] + d) % Base>>

\* a and b differ by at most k units in the last place
Near(a, b, k) ==
    /\ FLe(a, PlusUnits(b, k * Ulp(b)))
    /\ FLe(b, PlusUnits(a, k * Ulp(a)))

\* a whole number of dollars
IsWhole(v) == v[2] = 0 /\ v[1] % (2 ^ 18) = 0

\* the positions behind one emitted bucket, in input order
BucketPositions(coin, side, bucket) ==
    SelectSeq(all_positions,
              LAMBDA p : /\ p.coin = coin
                         /\ p.side = side
                         /\ InWindow(PriceOf(current_prices, coin), p.liquidationPx)
                         /\ BucketIdx(PriceOf(current_prices, coin), p.liquidationPx) = bucket)

\* the positions counted on one side of a coin, in input order
SidePositions(coin, side) ==
    SelectSeq(all_positions,
              LAMBDA p : /\ p.coin = coin
                         /\ p.side = side
                         /\ InWindow(PriceOf(current_prices, coin), p.liquidationPx))

AllWhole(ps) == \A k \in 1..Len(ps) : IsWhole(ps[k].positionValue)

SideList(coin, side) ==
    IF side = "long" THEN result[coin].longLiquidations
    ELSE result[coin].shortLiquidations

SideTotal(coin, side) ==
    IF side = "long" THEN result[coin].totalLongValue
    ELSE result[coin].totalShortValue

Sides == {"long", "short"}

\* C7, as stated: in every emitted bucket the four tier sub-totals add up to
\* the bucket's value exactly
C7_TierSumExact ==
    pc = "aggregated" =>
        \A c \in DOMAIN result : \A side \in Sides :
            \A b \in Elements(SideList(c, side)) : TierSum(b) = b["value"]

\* C7, amended: in every emitted bucket the four tier sub-totals add up to the
\* bucket's value up to the rounding of the float additions, within 2(n + 2)
\* units in the last place for a bucket of n positions, and exactly when the
\* bucket's positions carry one tier label, are at most two, or all have
\* whole-number values
C7_TierSumUpToRounding ==
    pc = "aggregated" =>
        \A c \in DOMAIN result : \A side \in Sides :
            \A b \in Elements(SideList(c, side)) :
                LET ps == BucketPositions(c, side, b["bucket"])
                    exact ==
                        \/ Cardinality({ps[k].leverageBucket : k \in 1..Len(ps)}) <= 1
                        \/ Len(ps) <= 2
                        \/ AllWhole(ps)
                IN  /\ Near(TierSum(b), b["value"], 2 * (Len(ps) + 2))
                    /\ exact => TierSum(b) = b["value"]

\* a bucket fed by two tiers whose sub-totals do not add up to its value
C7_Witness ==
    /\ pc = "aggregated"
    /\ \E c \in DOMAIN result : \E b \in Elements(result[c].longLiquidations) :
          /\ b["10x"] # FZero
          /\ b["25x"] # FZero
          /\ TierSum(b) # b["value"]

\* the float sum of the values of the buckets S, added from the highest down
RECURSIVE SumFromTop(_)
SumFromTop(S) ==
    IF S = {} THEN FZero
    ELSE LET low == CHOOSE x \in S : \A y \in S : x["bucket"] <= y["bucket"]
         IN  FAdd(SumFromTop(S \ {low}), low["value"])

\* the float sum of the values of the buckets S, added from the lowest up
RECURSIVE SumFromBottom(_)
SumFromBottom(S) ==
    IF S = {} THEN FZero
    ELSE LET high == CHOOSE x \in S : \A y \in S : x["bucket"] >= y["bucket"]
         IN  FAdd(SumFromBottom(S \ {high}), high["value"])

\* the cumulative of every bucket is the sum of the values of the buckets at
\* or above it (long) or at or below it (short); so the bucket nearest the
\* current price has its own value as cumulative
CumulativeIsRunningSum(c) ==
    LET long  == Elements(result[c].longLiquidations)
        short == Elements(result[c].shortLiquidations)
    IN  /\ \A b \in long :
              /\ b["cumulative"] = SumFromTop({x \in long : x["bucket"] >= b["bucket"]})
              /\ (\A x \in long : x["bucket"] <= b["bucket"]) => b["cumulative"] = b["value"]
        /\ \A b \in short :
              /\ b["cumulative"] = SumFromBottom({x \in short : x["bucket"] <= b["bucket"]})
              /\ (\A x \in short : x["bucket"] >= b["bucket"]) => b["cumulative"] = b["value"]

\* the farthest bucket of a side: the lowest long one, the highest short one
Farthest(c, side) ==
    LET S == Elements(SideList(c, side))
    IN  IF side = "long"
        THEN {b \in S : \A x \in S : b["bucket"] <= x["bucket"]}
        ELSE {b \in S : \A x \in S : b["bucket"] >= x["bucket"]}

\* C4, as stated: each cumulative is the sum of the totals of the buckets from
\* the current price out to it, the nearest bucket's cumulative is its own
\* total, and the farthest bucket's cumulative equals the side's total value
C4_CumulativeExact ==
    pc = "aggregated" =>
        \A c \in DOMAIN result :
            /\ CumulativeIsRunningSum(c)
            /\ \A side \in Sides : \A b \in Farthest(c, side) :
                  b["cumulative"] = SideTotal(c, side)

\* C4, amended: each cumulative is the float sum, added from the current price
\* outward, of the totals of the buckets out to it, the nearest bucket's
\* cumulative is its own total, and the farthest bucket's cumulative equals the
\* side's total value up to the rounding of the float additions: within 3n
\* units in the last place for n counted positions, and exactly when the side
\* has one bucket, at most two counted positions or only whole-number values
C4_CumulativeUpToRounding ==
    pc = "aggregated" =>
        \A c \in DOMAIN result :
            /\ CumulativeIsRunningSum(c)
            /\ \A side \in Sides : \A b \in Farthest(c, side) :
                  LET ps == SidePositions(c, side)
                      exact ==
                          \/ Len(SideList(c, side)) <= 1
                          \/ Len(ps) <= 2
                          \/ AllWhole(ps)
                  IN  /\ Near(b["cumulative"], SideTotal(c, side), 3 * Len(ps))
                      /\ exact => b["cumulative"] = SideTotal(c, side)

\* two long buckets whose lowest cumulative is not the total long value
C4_Witness ==
    /\ pc = "aggregated"
    /\ \E c \in DOMAIN result :
          /\ Len(result[c].longLiquidations) >= 2
          /\ \E b \in Farthest(c, "long") : b["cumulative"] # result[c].totalLongValue

\* liq_price strictly outside [price * 0.7, price * 1.3]
StrictlyOutside(price, liq) ==
    \/ 10 * liq < WindowLo * price
    \/ 10 * liq > WindowHi * price

\* the position list without the positions strictly outside their window
WithoutOutside(all) ==
    SelectSeq(all, LAMBDA p :
                     ~StrictlyOutside(PriceOf(current_prices, p.coin), p.liquidationPx))

\* the float sum of the values of a position list, in list order
RECURSIVE SumValues(_)
SumValues(ps) ==
    IF ps = <<>> THEN FZero
    ELSE FAdd(SumValues(SubSeq(ps, 1, Len(ps) - 1)), ps[Len(ps)].positionValue)

OnSide(all, coin, side) == SelectSeq(all, LAMBDA p : p.coin = coin /\ p.side = side)

\* C5: a position strictly outside the window is counted in positionCount and
\* changes no bucket, tier sub-total, cumulative or total; a position on a
\* window boundary is included, the upper boundary in bucket 49
C5_OutsideWindowOnlyCounted ==
    pc = "aggregated" =>
        \A c \in DOMAIN result :
            LET inside == WithoutOutside(all_positions)
                kept   == aggregate_liquidations(inside, current_prices)
                price  == PriceOf(current_prices, c)
            IN  /\ result[c].positionCount = Len(CoinPositions(all_positions, c))
                /\ c \in DOMAIN kept =>
                      /\ result[c].longLiquidations = kept[c].longLiquidations
                      /\ result[c].shortLiquidations = kept[c].shortLiquidations
                /\ c \notin DOMAIN kept =>
                      /\ result[c].longLiquidations = <<>>
                      /\ result[c].shortLiquidations = <<>>
                /\ \A side \in Sides :
                      SideTotal(c, side) = SumValues(OnSide(inside, c, side))
                /\ \A k \in 1..Len(all_positions) :
                      LET p == all_positions[k]
                      IN  p.coin = c =>
                            /\ 10 * p.liquidationPx = WindowHi * price =>
                                  \E b \in Elements(SideList(c, p.side)) :
                                      b["bucket"] = num_buckets - 1
                            /\ 10 * p.liquidationPx = WindowLo * price =>
                                  \E b \in Elements(SideList(c, p.side)) :
                                      b["bucket"] = 0

\* one coin with a position below the window, one above it and one on its
\* upper boundary
C5_Witness ==
    /\ pc = "aggregated"
    /\ \E c \in DOMAIN result :
          LET price == PriceOf(current_prices, c)
              liqs  == {all_positions[k].liquidationPx :
                          k \in {j \in 1..Len(all_positions) : all_positions[j].coin = c}}
          IN  /\ \E l \in liqs : 10 * l < WindowLo * price
              /\ \E l \in liqs : 10 * l > WindowHi * price
              /\ \E l \in liqs : 10 * l = WindowHi * price

\* the example: price 100 for BTC and one long position, liquidation price
\* 85, notional value 1000, tier '10x'
C6_Example ==
    /\ pc = "aggregated"
    /\ PriceOf(current_prices, "BTC") = 100000
    /\ all_positions = <<MakePosition(Raw("BTC", 85000, 1000000, 1, Lev(5)))>>

Thousand == DoubleOf(1000000)

\* the one long bucket of the example is bucket 12 with value, '10x'
\* sub-total and cumulative 1000
C6_SoleBucket(b) ==
    /\ b["bucket"] = 12
    /\ b["value"] = Thousand
    /\ b["10x"] = Thousand
    /\ b["cumulative"] = Thousand

\* C6, as stated: the example's position lands in bucket 12, whose emitted
\* price is about 85.6 (to the nearest 0.1), with value, '10x' sub-total and
\* cumulative 1000
C6_CenterNear856 ==
    C6_Example =>
        /\ "BTC" \in DOMAIN result
        /\ Len(result["BTC"].longLiquidations) = 1
        /\ C6_SoleBucket(result["BTC"].longLiquidations[1])
        /\ result["BTC"].longLiquidations[1]["price"] \in 8555..8565

\* C6, amended: the example's position lands in bucket 12, whose emitted price
\* (its center) is 85.0, with value, '10x' sub-total and cumulative 1000
C6_CenterIs850 ==
    C6_Example =>
        /\ "BTC" \in DOMAIN result
        /\ Len(result["BTC"].longLiquidations) = 1
        /\ C6_SoleBucket(result["BTC"].longLiquidations[1])
        /\ result["BTC"].longLiquidations[1]["price"] = 8500

\* the example has been aggregated
C6_Witness == C6_Example /\ "BTC" \in DOMAIN result

\* C9: both emitted sequences of every profile are ascending by bucket midpoint
C9_AscendingByMidpoint ==
    pc = "aggregated" =>
        \A c \in DOMAIN result : \A side \in Sides :
            LET L == SideList(c, side)
            IN  \A j \in 1..Len(L) : \A k \in 1..Len(L) :
                    j < k => L[j]["bucket"] < L[k]["bucket"]

---------------------------------------------------------------------------
(* SpecLeaderboard: fetch_leaderboard, the GET request and, in the except  *)
(* branch, the POST request                                                *)

LeaderboardEntries ==
    { DictEntry("0xA", "", ""), DictEntry("", "0xB", ""), DictEntry("", "", "0xA"),
      DictEntry("0xA", "0xB", ""), DictEntry("", "", ""), StrEntry("0xB"), OtherEntry }

LeaderboardResponses ==
    { Response(k, "other", <<>>) : k \in {"transport_error", "bad_status", "bad_json"} }
    \cup { Response("ok", "other", <<>>) }
    \cup { Response("ok", shape, rows) :
             shape \in {"rows", "list"}, rows \in SeqsUpTo(LeaderboardEntries, MaxRows) }

InitLeaderboard ==
    /\ pc = "leaderboard"
    /\ primary = NoResponse
    /\ secondary = NoResponse
    /\ posts = 0
    /\ wallets = <<>>
    /\ ClassifierIdle /\ CollectorIdle /\ LoopIdle /\ AggregatorIdle

\* the try block: requests.get and the extraction
LeaderboardPrimary ==
    /\ pc = "leaderboard"
    /\ \E r \in LeaderboardResponses :
          /\ primary' = r
          /\ IF PrimaryRaises(r)
             THEN pc' = "fallback" /\ wallets' = wallets
             ELSE pc' = "returned" /\ wallets' = PrimaryWallets(r)
    /\ UNCHANGED <<leverage, label, secondary, posts, payload, positions,
                   i, calls, all_positions, current_prices, result>>

\* the except block: requests.post and the extraction, [] when it raises too
LeaderboardFallback ==
    /\ pc = "fallback"
    /\ \E r \in LeaderboardResponses :
          /\ secondary' = r
          /\ posts' = posts + 1
          /\ wallets' = SecondaryWallets(r)
    /\ pc' = "returned"
    /\ UNCHANGED <<leverage, label, primary, payload, positions,
                   i, calls, all_positions, current_prices, result>>

NextLeaderboard == LeaderboardPrimary \/ LeaderboardFallback

SpecLeaderboard == InitLeaderboard /\ [][NextLeaderboard]_vars

\* C1: when the primary source throws, or answers and yields zero accounts,
\* the secondary source has been attempted exactly once when fetch_leaderboard
\* returns
C1_EmptyPrimaryTriesSecondaryOnce ==
    pc = "returned" =>
        ((PrimaryRaises(primary) \/ PrimaryWallets(primary) = <<>>) => posts = 1)

---------------------------------------------------------------------------
(* Spec: main, from the price snapshot to the aggregation *)

Accounts == {"0xA", "0xB"}

\* what fetch_current_prices returns: {} on an error, or the prices
PriceSnapshots == {NoPrices, [c \in {"BTC"} |-> 100000]}

GoodLong   == Raw("BTC", 85000, 1000000, 1, Lev(5))
GoodShort  == Raw("BTC", 130000, 100100, -1, Lev(20))
Untracked  == Raw("ZZZ", 85000, 1000000, 1, Lev(5))
BadLev     == Raw("BTC", 85000, 1000000, 1, LevDict(Null))

\* what the venue answers to one clearinghouseState request
AccountOutcomes ==
    { [kind |-> "transport_error", assetPositions |-> <<>>],
      [kind |-> "bad_json", assetPositions |-> <<>>],
      Ok(<<GoodLong>>), Ok(<<GoodShort, Untracked>>), Ok(<<GoodLong, BadLev>>) }

Init ==
    /\ pc = "prices"
    /\ wallets = <<>>
    /\ ClassifierIdle /\ LeaderboardIdle /\ CollectorIdle /\ LoopIdle /\ AggregatorIdle

\* current_prices = fetch_current_prices()
MainPrices ==
    /\ pc = "prices"
    /\ current_prices' \in PriceSnapshots
    /\ pc' = "discover"
    /\ UNCHANGED <<leverage, label, primary, secondary, posts, wallets, payload,
                   positions, i, calls, all_positions, result>>

\* wallets = fetch_leaderboard(); all_positions = []
MainDiscover ==
    /\ pc = "discover"
    /\ wallets' \in SeqsUpTo(Accounts, MaxWallets)
    /\ all_positions' = <<>>
    /\ i' = 0
    /\ pc' = "loop"
    /\ UNCHANGED <<leverage, label, primary, secondary, posts, payload,
                   positions, calls, current_prices, result>>

\* one iteration of the loop with the loop's break taken at a failed call
MainFetch_stops_at_failure ==
    /\ pc = "loop"
    /\ i < Len(wallets)
    /\ \E outcome \in AccountOutcomes :
          /\ payload' = outcome
          /\ positions' = fetch_clearinghouse_state(outcome)
          /\ calls' = Append(calls, <<wallets[i + 1], outcome>>)
          /\ all_positions' = all_positions \o fetch_clearinghouse_state(outcome)
          /\ i' = IF FetchFails(outcome) THEN Len(wallets) ELSE i + 1
    /\ UNCHANGED <<pc, leverage, label, primary, secondary, posts, wallets,
                   current_prices, result>>

\* one iteration of `for i, wallet in enumerate(wallets)`
MainFetch ==
    /\ pc = "loop"
    /\ i < Len(wallets)
    /\ \E outcome \in AccountOutcomes :
          /\ payload' = outcome
          /\ positions' = fetch_clearinghouse_state(outcome)
          /\ calls' = Append(calls, <<wallets[i + 1], outcome>>)
          /\ all_positions' = all_positions \o positions'
          /\ i' = i + 1
    /\ UNCHANGED <<pc, leverage, label, primary, secondary, posts, wallets,
                   current_prices, result>>

\* liquidation_data = aggregate_liquidations(all_positions, current_prices)
MainAggregate ==
    /\ pc = "loop"
    /\ i = Len(wallets)
    /\ result' = aggregate_liquidations(all_positions, current_prices)
    /\ pc' = "done"
    /\ UNCHANGED <<leverage, label, primary, secondary, posts, wallets, payload,
                   positions, i, calls, all_positions, current_prices>>

Next == MainPrices \/ MainDiscover \/ MainFetch \/ MainAggregate

Spec == Init /\ [][Next]_vars

\* the positions the calls made so far return, failing calls giving none
RECURSIVE Collected(_)
Collected(cs) ==
    IF cs = <<>> THEN <<>>
    ELSE LET last == cs[Len(cs)][2]
         IN  Collected(SubSeq(cs, 1, Len(cs) - 1))
                 \o (IF FetchFails(last) THEN <<>>
                     ELSE MapPositions(SelectSeq(last.assetPositions, Accepted)))

\* C2: whichever calls fail, the loop calls fetch_clearinghouse_state once per
\* account in list order, and the aggregation input holds every position of
\* every account whose call did not fail, none of a failing one
C2_FailureIsolated ==
    pc = "done" =>
        /\ Len(calls) = Len(wallets)
        /\ \A k \in 1..Len(wallets) : calls[k][1] = wallets[k]
        /\ all_positions = Collected(calls)

\* a failing call between two calls that returned positions
C2_Witness ==
    /\ pc = "done"
    /\ \E j \in 1..Len(calls) : \E k \in 1..Len(calls) : \E l \in 1..Len(calls) :
          /\ j < k /\ k < l
          /\ ~FetchFails(calls[j][2]) /\ fetch_clearinghouse_state(calls[j][2]) # <<>>
          /\ FetchFails(calls[k][2])
          /\ ~FetchFails(calls[l][2]) /\ fetch_clearinghouse_state(calls[l][2]) # <<>>

====
